---- MODULE Spec2Model ----
(***************************************************************************)
(* A model of src/dashboard.py: the module-level pipeline that loads the   *)
(* client and finance tables, cleans them and derives the dashboard's      *)
(* tables, one statement group after the other.                            *)
(*                                                                         *)
(* Numbers.  A numeric cell is a record [k, v]: k = "num" with the value   *)
(* v, k = "nan" (NaN / NaT / missing), k = "inf" with the sign v, or       *)
(* k = "text" (a cell that holds no number).  Percentages rounded to one   *)
(* decimal are kept in tenths (33.3 is Num(333)); Estimated_Profit,        *)
(* rounded to two decimals, is kept in hundredths.  Quotients are exact    *)
(* rationals and rounding is to nearest, ties to even, which is what       *)
(* round() and numpy's rint-based round do on every tie a float holds      *)
(* exactly (for the ratios 100*k/n below, every tie with n < 2000).        *)
(***************************************************************************)
EXTENDS Integers, Sequences, FiniteSets, TLC

VARIABLES
    pc,                     \* the statement group the script has reached
    clients,                \* src/dashboard.py:14  the clients DataFrame
    finance,                \* src/dashboard.py:15  the finance DataFrame
    clients_per_year,       \* src/dashboard.py:41
    renewal_counts,         \* src/dashboard.py:51
    dept_share,             \* src/dashboard.py:62
    first_share,            \* src/dashboard.py:73
    churn_data,             \* src/dashboard.py:84
    client_contracts,       \* src/dashboard.py:119
    merged_clients_profit,  \* src/dashboard.py:121
    top_clients_15,         \* src/dashboard.py:127
    produced                \* the names bound so far to a derived table

vars == <<pc, clients, finance, clients_per_year, renewal_counts, dept_share,
          first_share, churn_data, client_contracts, merged_clients_profit,
          top_clients_15, produced>>

----------------------------------------------------------------------------
(* Cells *)

Num(n) == [k |-> "num", v |-> n]

NaN == [k |-> "nan", v |-> 0]

Inf(s) == [k |-> "inf", v |-> s]

Text == [k |-> "text", v |-> 0]

\* A missing string cell (Company, Department).
NA == "NA"

IsNum(x) == x.k = "num"

\* The order Python and pandas give the strings used below.
Names == <<"A", "B", "C", "D1", "D2", "D3", "D4", "D5", "D6", "D7", "D8">>

Rank(s) == CHOOSE i \in 1..Len(Names) : Names[i] = s

StrLess(a, b) == Rank(a) < Rank(b)

----------------------------------------------------------------------------
(* Arithmetic *)

Abs(n) == IF n < 0 THEN 0 - n ELSE n

\* The integer nearest to n/d (d > 0), ties to the even one.
RoundHalfEven(n, d) ==
    LET q == n \div d
        r == n - q * d
    IN  IF 2 * r < d THEN q
        ELSE IF 2 * r > d THEN q + 1
        ELSE IF q % 2 = 0 THEN q ELSE q + 1

\* The float quotient n/d scaled by `scale` and rounded to an integer: IEEE
\* division gives NaN for 0/0 and a signed infinity for x/0.
RoundedRatio(scale, n, d) ==
    IF d = 0 THEN (IF n = 0 THEN NaN ELSE Inf(IF n > 0 THEN 1 ELSE -1))
    ELSE IF d > 0 THEN Num(RoundHalfEven(scale * n, d))
    ELSE Num(RoundHalfEven(0 - scale * n, 0 - d))

RECURSIVE SumSeq(_)
SumSeq(s) == IF s = <<>> THEN 0 ELSE s[1] + SumSeq(Tail(s))

RECURSIVE SortedInts(_)
\* sorted(S) for a finite set of integers
SortedInts(S) ==
    IF S = {} THEN <<>>
    ELSE LET m == CHOOSE x \in S : \A y \in S : x <= y
         IN  <<m>> \o SortedInts(S \ {m})

RECURSIVE SortedStrs(_)
SortedStrs(S) ==
    IF S = {} THEN <<>>
    ELSE LET m == CHOOSE x \in S : \A y \in S : x = y \/ StrLess(x, y)
         IN  <<m>> \o SortedStrs(S \ {m})

----------------------------------------------------------------------------
(* Clean Client Data: src/dashboard.py:20-30 *)

\* pd.to_datetime(str(cell) + "-01-01", errors="coerce").year: a year that
\* a datetime64[ns] holds parses, anything else is NaT.
ParseYear(cell) ==
    IF IsNum(cell) /\ cell.v \in 1678..2261 THEN Num(cell.v) ELSE NaN

WithYear(row) ==
    [Company      |-> row.Company,
     Department   |-> row.Department,
     Renewal_No   |-> row.Renewal_No,
     Renewal_Date |-> ParseYear(row.Renewal_Date),
     Year         |-> ParseYear(row.Renewal_Date)]

Retained(row) ==
    /\ row.Company # NA
    /\ row.Department # NA
    /\ row.Year.k # "nan"

\* clients.dropna(subset=["Company", "Department", "Year"])
CleanClientData(c) ==
    LET dated == [i \in DOMAIN c |-> WithYear(c[i])]
    IN  SelectSeq(dated, Retained)

(* Clean Finance Data: src/dashboard.py:35-36 *)

\* astype(int) raises on a cell that holds no integer.
CastableYear(row) == IsNum(row.Year)

\* Mutant: the cast never raises (errors="ignore").
CleanFinanceOk_NeverRaises(f) == \A i \in DOMAIN f : TRUE

CleanFinanceOk(f) == \A i \in DOMAIN f : CastableYear(f[i])

----------------------------------------------------------------------------
(* 1. Active Clients by Year: src/dashboard.py:41-42 *)

YearsOf(c) == {c[i].Year.v : i \in DOMAIN c}

CompaniesIn(c, y) == {c[i].Company : i \in {j \in DOMAIN c : c[j].Year.v = y}}

\* Mutant: the change is taken relative to the current row.
PctChange_OverCurrent(prev, cur) == RoundedRatio(1000, cur - prev, cur)

\* Series.pct_change() * 100, rounded to one decimal (tenths).
PctChange(prev, cur) == RoundedRatio(1000, cur - prev, prev)

ClientsPerYear(c) ==
    LET ys == SortedInts(YearsOf(c))
        n(t) == Cardinality(CompaniesIn(c, ys[t]))
    IN  [t \in 1..Len(ys) |->
            [Year           |-> ys[t],
             Active_Clients |-> n(t),
             Growth_pct     |-> IF t = 1 THEN NaN ELSE PctChange(n(t - 1), n(t))]]

----------------------------------------------------------------------------
(* 2. Renewal Frequency: src/dashboard.py:51-52 *)

AllCompanies(c) == {c[i].Company : i \in DOMAIN c}

\* max() of a group's Renewal_No, skipping NaN; NaN when none is left.
MaxCell(cells) ==
    LET vals == {x.v : x \in {y \in cells : IsNum(y)}}
    IN  IF vals = {} THEN NaN
        ELSE Num(CHOOSE m \in vals : \A w \in vals : w <= m)

CompanyMaxRenewal(c, co) ==
    MaxCell({c[i].Renewal_No : i \in {j \in DOMAIN c : c[j].Company = co}})

\* value_counts() drops the NaN maxima (dropna=True), then sort_index().
RenewalCounts(c) ==
    LET maxima == [co \in AllCompanies(c) |-> CompanyMaxRenewal(c, co)]
        values == {maxima[co].v : co \in {x \in AllCompanies(c) : IsNum(maxima[x])}}
        idx == SortedInts(values)
    IN  [t \in 1..Len(idx) |->
            [Renewal_Times     |-> idx[t],
             Number_of_Clients |->
                Cardinality({co \in AllCompanies(c) : maxima[co] = Num(idx[t])})]]

----------------------------------------------------------------------------
(* 3. Market Share by Department, 4. First Contracts Only:
      src/dashboard.py:62-63, 72-74 *)

DepartmentsOf(c) == {c[i].Department : i \in DOMAIN c}

\* groupby("Department")["Company"].count(): the non-null Company cells
ContractCount(c, d) ==
    Cardinality({i \in DOMAIN c : c[i].Department = d /\ c[i].Company # NA})

\* Mutant: the share is cut to one decimal instead of rounded.
SharePct_Truncated(count, total) ==
    IF total = 0 THEN NaN ELSE Num((1000 * count) \div total)

SharePct(count, total) == RoundedRatio(1000, count, total)

DeptShare(c) ==
    LET ds == SortedStrs(DepartmentsOf(c))
        total == SumSeq([t \in 1..Len(ds) |-> ContractCount(c, ds[t])])
    IN  [t \in 1..Len(ds) |->
            [Department      |-> ds[t],
             Total_Contracts |-> ContractCount(c, ds[t]),
             Share_pct       |-> SharePct(ContractCount(c, ds[t]), total)]]

IsFirstContract(row) == row.Renewal_No = Num(0)

\* clients[clients["Renewal_No"] == 0]
FirstContracts(c) == SelectSeq(c, IsFirstContract)

FirstShare(c) == DeptShare(FirstContracts(c))

----------------------------------------------------------------------------
(* 5. Client Retention: src/dashboard.py:83-95 *)

\* Mutant: the rate is taken over the later year's population.
ChurnRow_OverNextYear(c, year, next) ==
    LET current == CompaniesIn(c, year)
        next_year == CompaniesIn(c, next)
        churn_rate == RoundHalfEven(1000 * Cardinality(current \ next_year),
                                    Cardinality(next_year))
    IN  [Year          |-> year,
         Churn_pct     |-> Num(churn_rate),
         Retention_pct |-> Num(1000 - churn_rate)]

ChurnRow(c, year, next) ==
    LET current == CompaniesIn(c, year)
        next_year == CompaniesIn(c, next)
    IN  IF Cardinality(current) > 0
        THEN LET churn_rate ==
                     RoundHalfEven(1000 * Cardinality(current \ next_year),
                                   Cardinality(current))
             IN  [Year          |-> year,
                  Churn_pct     |-> Num(churn_rate),
                  Retention_pct |-> Num(1000 - churn_rate)]
        ELSE [Year |-> year, Churn_pct |-> NaN, Retention_pct |-> NaN]

ChurnData(c) ==
    LET years == SortedInts(YearsOf(c))
    IN  [i \in 1..(IF Len(years) = 0 THEN 0 ELSE Len(years) - 1) |->
            ChurnRow(c, years[i], years[i + 1])]

----------------------------------------------------------------------------
(* 6. Financial Performance: src/dashboard.py:112 *)

\* round((Total Profit / Total Sales) * 100, 1), in tenths
ProfitMargin(row) == RoundedRatio(1000, row.Total_Profit, row.Total_Sales)

WithMargin(row) ==
    [Department        |-> row.Department,
     Year              |-> row.Year,
     Total_Sales       |-> row.Total_Sales,
     Total_Profit      |-> row.Total_Profit,
     Profit_Margin_pct |-> ProfitMargin(row)]

\* Mutant: the rows with zero sales are dropped before the division.
FinancialPerformance_DropsZeroSales(f) ==
    LET kept == SelectSeq(f, LAMBDA r : r.Total_Sales # 0)
    IN  [i \in DOMAIN kept |-> WithMargin(kept[i])]

\* finance["Profit Margin_%"] = ...: the column is added to finance itself.
FinancialPerformance(f) == [i \in DOMAIN f |-> WithMargin(f[i])]

----------------------------------------------------------------------------
(* 10. Key Clients Contribution: src/dashboard.py:119-127 *)

TopN == 15

RECURSIVE Flatten(_)
Flatten(ss) == IF ss = <<>> THEN <<>> ELSE ss[1] \o Flatten(Tail(ss))

CompaniesOfDept(c, d) ==
    {c[i].Company : i \in {j \in DOMAIN c : c[j].Department = d}}

\* Mutant: the maximum is taken over the company's rows of every department.
PairMaxRenewal_AnyDepartment(c, d, co) == CompanyMaxRenewal(c, co)

PairMaxRenewal(c, d, co) ==
    MaxCell({c[i].Renewal_No :
                i \in {j \in DOMAIN c : c[j].Department = d /\ c[j].Company = co}})

\* Renewal_No + 1
PlusOne(cell) == IF IsNum(cell) THEN Num(cell.v + 1) ELSE cell

\* groupby(["Department", "Company"])["Renewal_No"].max().reset_index(),
\* with Total_Contracts = Renewal_No + 1
ClientContracts(c) ==
    LET ds == SortedStrs(DepartmentsOf(c))
        group(d) ==
            LET cos == SortedStrs(CompaniesOfDept(c, d))
            IN  [t \in 1..Len(cos) |->
                    [Department      |-> d,
                     Company         |-> cos[t],
                     Renewal_No      |-> PairMaxRenewal(c, d, cos[t]),
                     Total_Contracts |-> PlusOne(PairMaxRenewal(c, d, cos[t]))]]
    IN  Flatten([t \in 1..Len(ds) |-> group(ds[t])])

\* groupby("Department")["Total_Contracts"].sum(): NaN counts as nothing
DeptTotal(cc, d) ==
    SumSeq([i \in DOMAIN cc |->
               IF cc[i].Department = d /\ IsNum(cc[i].Total_Contracts)
               THEN cc[i].Total_Contracts.v ELSE 0])

\* Mutant: a lookup of the department's first finance row instead of a join.
JoinedFinance_FirstMatchOnly(row, f) ==
    LET m == SelectSeq(f, LAMBDA fr : fr.Department = row.Department)
    IN  IF m = <<>> THEN << [Year |-> NaN, Total_Profit |-> NaN] >>
        ELSE << [Year |-> m[1].Year, Total_Profit |-> Num(m[1].Total_Profit)] >>

\* The finance rows a client row is joined with: those of its Department, in
\* finance's order; how="left" keeps an unmatched client row, with NaN.
JoinedFinance(row, f) ==
    LET m == SelectSeq(f, LAMBDA fr : fr.Department = row.Department)
    IN  IF m = <<>> THEN << [Year |-> NaN, Total_Profit |-> NaN] >>
        ELSE [i \in DOMAIN m |->
                 [Year |-> m[i].Year, Total_Profit |-> Num(m[i].Total_Profit)]]

ContractsSharePct(total_contracts, dept_total) ==
    IF IsNum(total_contracts)
    THEN RoundedRatio(1000, total_contracts.v, dept_total)
    ELSE NaN

\* round(Contracts_Share_% / 100 * Total Profit, 2), in hundredths
EstimatedProfit(share, profit) ==
    IF IsNum(share) /\ IsNum(profit)
    THEN Num(RoundHalfEven(share.v * profit.v, 10))
    ELSE NaN

MergedRow(row, fr, dept_total) ==
    LET share == ContractsSharePct(row.Total_Contracts, dept_total)
    IN  [Department           |-> row.Department,
         Company              |-> row.Company,
         Renewal_No           |-> row.Renewal_No,
         Total_Contracts      |-> row.Total_Contracts,
         Year                 |-> fr.Year,
         Total_Profit         |-> fr.Total_Profit,
         Dept_Total_Contracts |-> dept_total,
         Contracts_Share_pct  |-> share,
         Estimated_Profit     |-> EstimatedProfit(share, fr.Total_Profit)]

MergedClientsProfit(cc, f) ==
    Flatten([i \in DOMAIN cc |->
        LET j == JoinedFinance(cc[i], f)
        IN  [t \in DOMAIN j |->
                MergedRow(cc[i], j[t], DeptTotal(cc, cc[i].Department))]])

\* sort_values(["Department", "Estimated_Profit"], ascending=[True, False]):
\* a goes strictly before b; NaN sorts last; equal keys keep their order.
SortsBefore(a, b) ==
    \/ StrLess(a.Department, b.Department)
    \/ /\ a.Department = b.Department
       /\ IsNum(a.Estimated_Profit)
       /\ \/ ~IsNum(b.Estimated_Profit)
          \/ a.Estimated_Profit.v > b.Estimated_Profit.v

RECURSIVE InsertSorted(_, _)
InsertSorted(x, s) ==
    IF s = <<>> THEN <<x>>
    ELSE IF SortsBefore(x, s[1]) THEN <<x>> \o s
    ELSE <<s[1]>> \o InsertSorted(x, Tail(s))

RECURSIVE SortValues(_)
SortValues(t) ==
    IF t = <<>> THEN <<>>
    ELSE InsertSorted(t[Len(t)], SortValues(SubSeq(t, 1, Len(t) - 1)))

\* Mutant: the cut is off by one (rows 0..n instead of 0..n-1).
GroupHead_OneMore(t, n) ==
    LET idx == {i \in DOMAIN t :
                   Cardinality({j \in 1..(i - 1) :
                                   t[j].Department = t[i].Department}) <= n}
        order == SortedInts(idx)
    IN  [k \in 1..Len(order) |-> t[order[k]]]

\* groupby("Department").head(n): a row stays when fewer than n rows of its
\* Department come before it.
GroupHead(t, n) ==
    LET idx == {i \in DOMAIN t :
                   Cardinality({j \in 1..(i - 1) :
                                   t[j].Department = t[i].Department}) < n}
        order == SortedInts(idx)
    IN  [k \in 1..Len(order) |-> t[order[k]]]

TopClients15(m) == GroupHead(SortValues(m), TopN)

----------------------------------------------------------------------------
(* The script, one statement group per action: src/dashboard.py:14-153 *)

NoTable == <<>>

\* 20-30
CleanClients ==
    /\ pc = "clean_clients"
    /\ clients' = CleanClientData(clients)
    /\ pc' = "clean_finance"
    /\ UNCHANGED <<finance, clients_per_year, renewal_counts, dept_share,
                   first_share, churn_data, client_contracts,
                   merged_clients_profit, top_clients_15, produced>>

\* 35-36: astype(int) raises ValueError and the module stops there.
CleanFinance ==
    /\ pc = "clean_finance"
    /\ pc' = IF CleanFinanceOk(finance) THEN "active_clients" ELSE "ValueError"
    /\ UNCHANGED <<clients, finance, clients_per_year, renewal_counts,
                   dept_share, first_share, churn_data, client_contracts,
                   merged_clients_profit, top_clients_15, produced>>

\* 41-46
ActiveClientsByYear ==
    /\ pc = "active_clients"
    /\ clients_per_year' = ClientsPerYear(clients)
    /\ produced' = produced \cup {"clients_per_year"}
    /\ pc' = "renewal_frequency"
    /\ UNCHANGED <<clients, finance, renewal_counts, dept_share, first_share,
                   churn_data, client_contracts, merged_clients_profit,
                   top_clients_15>>

\* 51-57
RenewalFrequency ==
    /\ pc = "renewal_frequency"
    /\ renewal_counts' = RenewalCounts(clients)
    /\ produced' = produced \cup {"renewal_counts"}
    /\ pc' = "market_share"
    /\ UNCHANGED <<clients, finance, clients_per_year, dept_share, first_share,
                   churn_data, client_contracts, merged_clients_profit,
                   top_clients_15>>

\* 62-67
MarketShare ==
    /\ pc = "market_share"
    /\ dept_share' = DeptShare(clients)
    /\ produced' = produced \cup {"dept_share"}
    /\ pc' = "first_contracts"
    /\ UNCHANGED <<clients, finance, clients_per_year, renewal_counts,
                   first_share, churn_data, client_contracts,
                   merged_clients_profit, top_clients_15>>

\* 72-78
FirstContractsOnly ==
    /\ pc = "first_contracts"
    /\ first_share' = FirstShare(clients)
    /\ produced' = produced \cup {"first_share"}
    /\ pc' = "client_retention"
    /\ UNCHANGED <<clients, finance, clients_per_year, renewal_counts,
                   dept_share, churn_data, client_contracts,
                   merged_clients_profit, top_clients_15>>

\* 83-103: pd.DataFrame([]) has no columns, so with no pair of years
\* churn_df["Year"] (line 98) raises KeyError and the module stops there.
ClientRetention ==
    /\ pc = "client_retention"
    /\ churn_data' = ChurnData(clients)
    /\ produced' = produced \cup {"churn_data"}
    /\ pc' = IF ChurnData(clients) = <<>> THEN "KeyError"
             ELSE "financial_performance"
    /\ UNCHANGED <<clients, finance, clients_per_year, renewal_counts,
                   dept_share, first_share, client_contracts,
                   merged_clients_profit, top_clients_15>>

\* 108-114
FinancialPerformanceStep ==
    /\ pc = "financial_performance"
    /\ finance' = FinancialPerformance(finance)
    /\ pc' = "key_clients"
    /\ UNCHANGED <<clients, clients_per_year, renewal_counts, dept_share,
                   first_share, churn_data, client_contracts,
                   merged_clients_profit, top_clients_15, produced>>

\* 119-153
KeyClientsContribution ==
    /\ pc = "key_clients"
    /\ client_contracts' = ClientContracts(clients)
    /\ merged_clients_profit' =
           MergedClientsProfit(ClientContracts(clients), finance)
    /\ top_clients_15' =
           TopClients15(MergedClientsProfit(ClientContracts(clients), finance))
    /\ produced' = produced \cup
           {"client_contracts", "merged_clients_profit", "top_clients_15"}
    /\ pc' = "done"
    /\ UNCHANGED <<clients, finance, clients_per_year, renewal_counts,
                   dept_share, first_share, churn_data>>

Next ==
    \/ CleanClients
    \/ CleanFinance
    \/ ActiveClientsByYear
    \/ RenewalFrequency
    \/ MarketShare
    \/ FirstContractsOnly
    \/ ClientRetention
    \/ FinancialPerformanceStep
    \/ KeyClientsContribution

----------------------------------------------------------------------------
(* Inputs: the tables pd.read_excel hands over, src/dashboard.py:14-15 *)

ClientRow(co, d, r, date) ==
    [Company |-> co, Department |-> d, Renewal_No |-> r, Renewal_Date |-> date]

FinanceRow(d, y, sales, profit) ==
    [Department |-> d, Year |-> y, Total_Sales |-> sales, Total_Profit |-> profit]

SeqsUpTo(S, n) == UNION {[1..m -> S] : m \in 0..n}

\* The non-decreasing sequences of at most n codes below k: one table per
\* multiset of rows.
CodeSeqs(k, n) ==
    UNION {{s \in [1..m -> 0..(k - 1)] : \A i \in 1..(m - 1) : s[i] <= s[i + 1]} :
              m \in 0..n}

InitOn(C, F) ==
    /\ pc = "clean_clients"
    /\ clients \in C
    /\ finance \in F
    /\ clients_per_year = NoTable
    /\ renewal_counts = NoTable
    /\ dept_share = NoTable
    /\ first_share = NoTable
    /\ churn_data = NoTable
    /\ client_contracts = NoTable
    /\ merged_clients_profit = NoTable
    /\ top_clients_15 = NoTable
    /\ produced = {}

\* The worked example of the specification, with D1 for Sales.
ExampleClients ==
    << ClientRow("A", "D1", Num(0), Num(2020)),
       ClientRow("A", "D1", Num(1), Num(2021)),
       ClientRow("B", "D1", Num(0), Num(2020)) >>

ExampleFinance == << FinanceRow("D1", Num(2021), 1000, 250) >>

\* Two departments, A in both; D2 also holds B.
TwoDeptClients ==
    << ClientRow("A", "D1", Num(0), Num(2020)),
       ClientRow("A", "D2", Num(2), Num(2021)),
       ClientRow("B", "D2", NaN, Num(2021)),
       ClientRow(NA, "D2", Num(0), Num(2021)) >>

\* One year only.
OneYearClients == << ClientRow("A", "D1", Num(0), Num(2020)) >>

(* Spec: any finance table of at most MaxFinRows rows *)

MaxFinRows == 2

FinanceRows ==
    {FinanceRow(d, y, s, p) :
        d \in {"D1", "D2"}, y \in {Num(2020), Text}, s \in {0, 7},
        p \in {-250, 0, 12}}

Init == InitOn({ExampleClients, TwoDeptClients, OneYearClients},
               SeqsUpTo(FinanceRows, MaxFinRows))

Spec == Init /\ [][Next]_vars

(* SpecActivity: client tables that vary in Company and Renewal Date *)

MaxRows == 5

ActivityCompanies == <<"A", "B", "C">>

ActivityDates == <<Num(2020), Num(2021), Num(2023), Text>>

ActivityRow(code) ==
    ClientRow(ActivityCompanies[(code % 3) + 1], "D1", Num(0),
              ActivityDates[(code \div 3) + 1])

\* Every multiset of at most MaxRows rows, and the shorter tables in every
\* row order.
ActivityTables ==
    {[i \in DOMAIN s |-> ActivityRow(s[i])] :
        s \in CodeSeqs(12, MaxRows) \cup SeqsUpTo(0..11, MaxRows - 2)}

InitActivity == InitOn(ActivityTables, {ExampleFinance})

SpecActivity == InitActivity /\ [][Next]_vars

(* SpecRenewal: client tables that vary in Company, Department, Renewal
   Number and Renewal Date *)

MaxRenewalRows == 3

RenewalValues == <<Num(0), Num(1), Num(3), NaN>>

RenewalRow(code) ==
    ClientRow(IF code % 2 = 0 THEN "A" ELSE "B",
              IF (code \div 2) % 2 = 0 THEN "D1" ELSE "D2",
              RenewalValues[((code \div 4) % 4) + 1],
              IF code \div 16 = 0 THEN Num(2020) ELSE Num(2021))

RenewalTables ==
    {[i \in DOMAIN s |-> RenewalRow(s[i])] :
        s \in CodeSeqs(32, MaxRenewalRows) \cup SeqsUpTo(0..31, MaxRenewalRows - 1)}

BothDeptsFinance ==
    << FinanceRow("D1", Num(2020), 7, 12),
       FinanceRow("D2", Num(2020), 1000, -250),
       FinanceRow("D1", Num(2021), 1000, 250) >>

InitRenewal == InitOn(RenewalTables, {BothDeptsFinance})

SpecRenewal == InitRenewal /\ [][Next]_vars

(* SpecShare: client tables given by the number of contracts of each
   department; a department's n-th row is its client's renewal n-1 *)

NDept == 6

MaxContracts == 2

ShareDepartments == <<"D1", "D2", "D3", "D4", "D5", "D6", "D7", "D8">>

ShareRows(d, n) ==
    [j \in 1..n |->
        ClientRow("A", ShareDepartments[d], Num(j - 1),
                  IF j = 1 THEN Num(2020) ELSE Num(2021))]

ShareTable(counts) == Flatten([d \in 1..NDept |-> ShareRows(d, counts[d])])

ShareTables == {ShareTable(counts) : counts \in [1..NDept -> 0..MaxContracts]}

InitShare == InitOn(ShareTables, {ExampleFinance})

SpecShare == InitShare /\ [][Next]_vars

(* SpecTop: finance tables long enough for a department to pass 15 rows *)

MaxTopRows == 6

TopClients ==
    << ClientRow("A", "D1", Num(0), Num(2020)),
       ClientRow("B", "D1", Num(1), Num(2021)),
       ClientRow("C", "D1", Num(2), Num(2021)),
       ClientRow("A", "D2", Num(0), Num(2020)),
       ClientRow("B", "D3", Num(0), Num(2020)) >>

TopFinanceRows ==
    { FinanceRow("D1", Num(2020), 7, -250),
      FinanceRow("D1", Num(2021), 7, 12),
      FinanceRow("D1", Num(2023), 7, 12),
      FinanceRow("D2", Num(2020), 7, 12) }

InitTop == InitOn({TopClients}, SeqsUpTo(TopFinanceRows, MaxTopRows))

SpecTop == InitTop /\ [][Next]_vars

----------------------------------------------------------------------------
(* Properties *)

Normalizing == pc \in {"clean_clients", "clean_finance"}

MarginComputed == pc \in {"key_clients", "done"}

\* C4 (as claimed): once the margin column is computed, every finance row
\* with non-zero Total_Sales has Profit_Margin_% = round(100 * Total_Profit
\* / Total_Sales, 1), and every row with Total_Sales = 0 has the undefined
\* (null) margin, whatever Total_Profit is: never an infinity.
C4_MarginGuarded ==
    MarginComputed =>
        \A i \in DOMAIN finance :
            LET r == finance[i]
            IN  IF r.Total_Sales # 0
                THEN r.Profit_Margin_pct =
                         Num(RoundHalfEven(1000 * r.Total_Profit, r.Total_Sales))
                ELSE r.Profit_Margin_pct = NaN

AllDerivedEmpty ==
    /\ produced = {}
    /\ clients_per_year = NoTable /\ renewal_counts = NoTable
    /\ dept_share = NoTable /\ first_share = NoTable
    /\ churn_data = NoTable /\ client_contracts = NoTable
    /\ merged_clients_profit = NoTable /\ top_clients_15 = NoTable

InvalidFinanceYear == \E i \in DOMAIN finance : finance[i].Year.k # "num"

\* C8: a finance Year that cannot be cast to an integer stops the script in
\* the cleaning step: it never gets past it, no derived table is ever
\* produced (not even one that reads only the clients), and the run ends in
\* the cast's ValueError; and whenever an analyzer has run or is about to
\* run, cleaning has completed: every finance Year is an integer and every
\* client row is a retained one.
C8_FatalBeforeAnalysis ==
    /\ InvalidFinanceYear => (pc \in {"clean_clients", "clean_finance", "ValueError"}
                              /\ AllDerivedEmpty)
    /\ pc = "ValueError" => (InvalidFinanceYear /\ AllDerivedEmpty)
    /\ Normalizing => AllDerivedEmpty
    /\ (~Normalizing /\ pc # "ValueError") =>
           /\ \A i \in DOMAIN finance : finance[i].Year.k = "num"
           /\ \A i \in DOMAIN clients :
                  /\ "Year" \in DOMAIN clients[i]
                  /\ Retained(clients[i])

\* C8 witness: the script has stopped on an invalid finance Year although
\* the client table had rows to analyse.
C8_Witness ==
    /\ pc = "ValueError"
    /\ InvalidFinanceYear
    /\ Len(clients) >= 2
    /\ AllDerivedEmpty

\* The four columns a finance row is loaded with.
FinanceCore(row) ==
    [Department   |-> row.Department,
     Year         |-> row.Year,
     Total_Sales  |-> row.Total_Sales,
     Total_Profit |-> row.Total_Profit]

FinanceRowsOf(d) == Cardinality({j \in DOMAIN finance : finance[j].Department = d})

MergedRowsOf(d) ==
    Cardinality({i \in DOMAIN merged_clients_profit :
                    merged_clients_profit[i].Department = d})

EstimateOf(r) ==
    IF r.Contracts_Share_pct.k = "num" /\ r.Total_Profit.k = "num"
    THEN Num(RoundHalfEven(r.Contracts_Share_pct.v * r.Total_Profit.v, 10))
    ELSE NaN

\* The joined rows of r's pair with r's Year and Total Profit, and the
\* finance rows of r's Department with that Year and Total Profit.
JoinedCopies(r) ==
    Cardinality({i \in DOMAIN merged_clients_profit :
                    LET x == merged_clients_profit[i]
                    IN  /\ x.Department = r.Department
                        /\ x.Company = r.Company
                        /\ x.Year = r.Year
                        /\ x.Total_Profit = r.Total_Profit})

FinanceCopies(r) ==
    Cardinality({j \in DOMAIN finance :
                    /\ finance[j].Department = r.Department
                    /\ finance[j].Year = r.Year
                    /\ Num(finance[j].Total_Profit) = r.Total_Profit})

\* C6 (as claimed): before the top-15 cut, a department with k finance rows
\* and m companies contributes exactly k*m joined rows, so none when it has
\* no finance row.
C6_RowsAreKTimesM ==
    pc = "done" =>
        \A d \in DepartmentsOf(clients) :
            MergedRowsOf(d) =
                FinanceRowsOf(d) * Cardinality(CompaniesOfDept(clients, d))

\* C6 (amended): before the top-15 cut, each (Department, Company) pair
\* yields exactly one row per finance row of its Department, whatever the
\* Year, and there are no rows of other pairs; a pair whose Department has
\* no finance row still yields one row, with undefined Year, Total Profit
\* and Estimated_Profit.  So a department with k >= 1 finance rows and m
\* companies contributes k*m rows and one with no finance row contributes
\* m; every row has Estimated_Profit = round(Contracts_Share_% / 100 *
\* Total Profit of the joined finance row, 2), undefined when either factor
\* is.
C6_LeftJoinRows ==
    pc = "done" =>
        /\ \A d \in DepartmentsOf(clients) :
              MergedRowsOf(d) =
                  (IF FinanceRowsOf(d) = 0 THEN 1 ELSE FinanceRowsOf(d))
                      * Cardinality(CompaniesOfDept(clients, d))
        /\ \A i \in DOMAIN merged_clients_profit :
              LET r == merged_clients_profit[i]
              IN  /\ r.Department \in DepartmentsOf(clients)
                  /\ r.Company \in CompaniesOfDept(clients, r.Department)
                  /\ r.Estimated_Profit = EstimateOf(r)
                  /\ JoinedCopies(r) =
                         IF FinanceRowsOf(r.Department) = 0 THEN 1
                         ELSE FinanceCopies(r)
                  /\ FinanceRowsOf(r.Department) = 0 =>
                        /\ r.Year = NaN
                        /\ r.Total_Profit = NaN
                        /\ r.Estimated_Profit = NaN
        /\ \A d \in DepartmentsOf(clients) :
              \A co \in CompaniesOfDept(clients, d) :
                  \A j \in DOMAIN finance :
                      finance[j].Department = d =>
                          \E i \in DOMAIN merged_clients_profit :
                              LET r == merged_clients_profit[i]
                              IN  /\ r.Department = d /\ r.Company = co
                                  /\ r.Year = finance[j].Year
                                  /\ r.Total_Profit = Num(finance[j].Total_Profit)

\* C6 witness: the join has run with one department of two companies and
\* two finance rows of different profit, and another department that has a
\* company and no finance row.
C6_Witness ==
    /\ pc = "done"
    /\ \E d \in DepartmentsOf(clients) :
          /\ Cardinality(CompaniesOfDept(clients, d)) = 2
          /\ FinanceRowsOf(d) = 2
          /\ finance[1].Total_Profit # finance[2].Total_Profit
          /\ MergedRowsOf(d) = 4
    /\ \E d \in DepartmentsOf(clients) :
          /\ FinanceRowsOf(d) = 0
          /\ MergedRowsOf(d) = 1

\* The retained client records' distinct Years and yearly active sets, read
\* off the client table.
RetainedYears == {clients[i].Year.v : i \in DOMAIN clients}

Active(y) == {clients[i].Company : i \in {j \in DOMAIN clients : clients[j].Year.v = y}}

\* y is the n-th Year in ascending order
IsNthYear(y, n) ==
    y \in RetainedYears /\ Cardinality({z \in RetainedYears : z < y}) = n - 1

\* C1: with Y the ascending distinct Years of the retained client records,
\* churn_data has |Y|-1 rows (none when Y is empty), the i-th for the pair
\* (Y[i], Y[i+1]) and carrying Y[i]; its Churn_% is round(100 * |active(Y[i])
\* minus active(Y[i+1])| / |active(Y[i])|, 1), its Retention_% is 100 minus
\* that, and the two add up to 100.
C1_ChurnRetention ==
    "churn_data" \in produced =>
        /\ Len(churn_data) =
               IF RetainedYears = {} THEN 0 ELSE Cardinality(RetainedYears) - 1
        /\ \A i \in DOMAIN churn_data :
              LET row == churn_data[i]
              IN  /\ IsNthYear(row.Year, i)
                  /\ \E next \in RetainedYears :
                        /\ IsNthYear(next, i + 1)
                        /\ row.Churn_pct =
                               Num(RoundHalfEven(
                                       1000 * Cardinality(Active(row.Year) \ Active(next)),
                                       Cardinality(Active(row.Year))))
                  /\ row.Retention_pct.k = "num"
                  /\ row.Retention_pct.v = 1000 - row.Churn_pct.v
                  /\ row.Churn_pct.v + row.Retention_pct.v = 1000

\* C1 witness: three Years with a gap (2020, 2021, 2023); three companies
\* are active in 2020 and two of them are gone in 2021, a churn of 66.7.
C1_Witness ==
    /\ "churn_data" \in produced
    /\ Len(churn_data) = 2
    /\ churn_data[1] = [Year |-> 2020, Churn_pct |-> Num(667),
                        Retention_pct |-> Num(333)]
    /\ churn_data[2].Year = 2021
    /\ 2023 \in RetainedYears

\* C9: clients_per_year has one row per distinct Year of the retained client
\* records, in ascending Year order, with Active_Clients the number of
\* distinct Companies of that Year; Growth_% is undefined in the first row
\* and in every later row is round(100 * (Active_Clients[t] -
\* Active_Clients[t-1]) / Active_Clients[t-1], 1), t-1 being the row before.
C9_ClientActivity ==
    "clients_per_year" \in produced =>
        /\ Len(clients_per_year) = Cardinality(RetainedYears)
        /\ \A t \in DOMAIN clients_per_year :
              LET row == clients_per_year[t]
              IN  /\ IsNthYear(row.Year, t)
                  /\ row.Active_Clients = Cardinality(Active(row.Year))
                  /\ IF t = 1 THEN row.Growth_pct = NaN
                     ELSE LET before == clients_per_year[t - 1].Active_Clients
                          IN  row.Growth_pct =
                                  Num(RoundHalfEven(
                                          1000 * (row.Active_Clients - before),
                                          before))

\* C9 witness: rows for 2020, 2021 and 2023; the count falls from 3 to 1
\* (-66.7) and the row of 2023 is measured against 2021.
C9_Witness ==
    /\ "clients_per_year" \in produced
    /\ Len(clients_per_year) = 3
    /\ clients_per_year[1] = [Year |-> 2020, Active_Clients |-> 3, Growth_pct |-> NaN]
    /\ clients_per_year[2] = [Year |-> 2021, Active_Clients |-> 1, Growth_pct |-> Num(-667)]
    /\ clients_per_year[3].Year = 2023

\* The client records of a company, and of a (Department, Company) pair.
RenewalsOfCompany(co) ==
    {clients[i].Renewal_No : i \in {j \in DOMAIN clients : clients[j].Company = co}}

RenewalsOfPair(d, co) ==
    {clients[i].Renewal_No :
        i \in {j \in DOMAIN clients :
                  clients[j].Department = d /\ clients[j].Company = co}}

\* The largest value among cells, and whether there is one.
HasValue(cells) == \E x \in cells : x.k = "num"

Largest(cells) ==
    CHOOSE m \in {x.v : x \in {y \in cells : y.k = "num"}} :
        \A x \in cells : x.k = "num" => x.v <= m

\* C2 (as claimed): the buckets of renewal_counts count every company of the
\* retained client records exactly once: the Number_of_Clients add up to the
\* number of distinct Companies, also when a company's records carry no
\* Renewal Number, and a company that has one is counted in the bucket of
\* its largest.
C2_BucketsPartitionCompanies ==
    "renewal_counts" \in produced =>
        /\ SumSeq([t \in DOMAIN renewal_counts |->
                      renewal_counts[t].Number_of_Clients])
             = Cardinality({clients[i].Company : i \in DOMAIN clients})
        /\ \A t \in DOMAIN renewal_counts :
              renewal_counts[t].Number_of_Clients =
                  Cardinality({co \in {clients[i].Company : i \in DOMAIN clients} :
                                  /\ HasValue(RenewalsOfCompany(co))
                                  /\ Largest(RenewalsOfCompany(co))
                                       = renewal_counts[t].Renewal_Times})

ContractsOf(cells) == IF HasValue(cells) THEN Num(Largest(cells) + 1) ELSE NaN

\* C5 (as claimed): in every joined row, Total_Contracts is the largest
\* Renewal Number over all the company's retained records, whatever their
\* Department, plus one.
C5_ContractsPerCompany ==
    pc = "done" =>
        \A i \in DOMAIN merged_clients_profit :
            merged_clients_profit[i].Total_Contracts =
                ContractsOf(RenewalsOfCompany(merged_clients_profit[i].Company))

PairsOf(d) == {clients[i].Company : i \in {j \in DOMAIN clients : clients[j].Department = d}}

RECURSIVE SumOver(_, _)
SumOver(S, f) ==
    IF S = {} THEN 0
    ELSE LET x == CHOOSE y \in S : TRUE IN f[x] + SumOver(S \ {x}, f)

DeptContracts(d) ==
    SumOver(PairsOf(d),
            [co \in PairsOf(d) |->
                IF HasValue(RenewalsOfPair(d, co))
                THEN Largest(RenewalsOfPair(d, co)) + 1 ELSE 0])

\* C5 (amended): Total_Contracts is per (Department, Company) pair: in every
\* row emitted for a company in a department it is the largest Renewal
\* Number over the company's retained records of that Department, plus one
\* (undefined when none of them carries a Renewal Number), and
\* Dept_Total_Contracts is the sum of the defined Total_Contracts over the
\* companies of the Department.  client_contracts has one row per pair.
C5_ContractsPerPair ==
    pc = "done" =>
        /\ \A d \in {clients[i].Department : i \in DOMAIN clients} :
              \A co \in PairsOf(d) :
                  Cardinality({i \in DOMAIN client_contracts :
                                  /\ client_contracts[i].Department = d
                                  /\ client_contracts[i].Company = co}) = 1
        /\ \A i \in DOMAIN client_contracts :
              LET r == client_contracts[i]
              IN  /\ r.Company \in PairsOf(r.Department)
                  /\ r.Total_Contracts =
                         ContractsOf(RenewalsOfPair(r.Department, r.Company))
        /\ \A t \in {merged_clients_profit, top_clients_15} :
              \A i \in DOMAIN t :
                  /\ t[i].Total_Contracts =
                         ContractsOf(RenewalsOfPair(t[i].Department, t[i].Company))
                  /\ t[i].Dept_Total_Contracts = DeptContracts(t[i].Department)

\* C5 witness: a company has rows in two departments with different
\* Total_Contracts, and one of the departments holds a second company.
C5_Witness ==
    /\ pc = "done"
    /\ \E i, j \in DOMAIN merged_clients_profit :
          LET a == merged_clients_profit[i]
              b == merged_clients_profit[j]
          IN  /\ a.Company = b.Company
              /\ a.Department # b.Department
              /\ a.Total_Contracts.k = "num" /\ b.Total_Contracts.k = "num"
              /\ a.Total_Contracts.v > b.Total_Contracts.v
              /\ a.Dept_Total_Contracts > a.Total_Contracts.v

ShareSum(view) == SumSeq([t \in DOMAIN view |-> view[t].Share_pct.v])

ViewTotal(view, col) == SumSeq([t \in DOMAIN view |-> view[t][col]])

Views ==
    (IF "dept_share" \in produced THEN {dept_share} ELSE {})
        \cup (IF "first_share" \in produced THEN {first_share} ELSE {})

\* C3 (as claimed): in each view that has a department, the Share_% add up
\* to 100 within 0.1, however many departments and contracts there are.
C3_SharesWithinTenth ==
    \A view \in Views :
        Len(view) >= 1 => Abs(ShareSum(view) - 1000) <= 1

\* C3 (amended): in each view, every Share_% is round(100 *
\* Total_Contracts / sum of Total_Contracts of the view, 1), and in a view
\* of n >= 1 departments the Share_% add up to 100 within 0.05 * n: within
\* 0.1 for one or two departments, but six departments of one contract each
\* give 6 * 16.7 = 100.2.
C3_SharesWithinHalfTenthEach ==
    \A view \in Views :
        /\ \A t \in DOMAIN view :
              /\ view[t].Total_Contracts >= 1
              /\ view[t].Share_pct =
                     Num(RoundHalfEven(1000 * view[t].Total_Contracts,
                                       ViewTotal(view, "Total_Contracts")))
        /\ Len(view) >= 1 => 2 * Abs(ShareSum(view) - 1000) <= Len(view)

\* C3 witness: the first-contracts view has six departments of one first
\* contract each, 16.7 each, 100.2 in all, while the all-contracts view
\* has unequal departments.
C3_Witness ==
    /\ "first_share" \in produced
    /\ Len(first_share) = 6
    /\ \A t \in DOMAIN first_share : first_share[t].Share_pct = Num(167)
    /\ ShareSum(first_share) = 1002
    /\ \E t \in DOMAIN dept_share : dept_share[t].Total_Contracts = 2
    /\ \E t \in DOMAIN dept_share : dept_share[t].Total_Contracts = 1

\* a >= b for Estimated_Profit cells, an undefined one ranking lowest
ProfitGE(a, b) == b.k # "num" \/ (a.k = "num" /\ a.v >= b.v)

TopRowsOf(d) ==
    Cardinality({i \in DOMAIN top_clients_15 : top_clients_15[i].Department = d})

Occurrences(t, r) == Cardinality({i \in DOMAIN t : t[i] = r})

Min(a, b) == IF a <= b THEN a ELSE b

\* C7: the rows of top_clients_15 are grouped by Department; within a
\* Department they are in non-increasing Estimated_Profit order (an
\* undefined Estimated_Profit ranking lowest); no Department has more than
\* 15 rows; and the rows kept for a Department are the 15 of its joined rows
\* with the highest Estimated_Profit, all of them when there are fewer.
C7_TopFifteen ==
    pc = "done" =>
        LET T == top_clients_15
            M == merged_clients_profit
        IN  /\ \A i, j, l \in DOMAIN T :
                  (i < j /\ j < l /\ T[i].Department = T[l].Department)
                      => T[j].Department = T[i].Department
            /\ \A i, j \in DOMAIN T :
                  (i < j /\ T[i].Department = T[j].Department)
                      => ProfitGE(T[i].Estimated_Profit, T[j].Estimated_Profit)
            /\ \A d \in {M[i].Department : i \in DOMAIN M} :
                  /\ TopRowsOf(d) <= 15
                  /\ TopRowsOf(d) = Min(15, MergedRowsOf(d))
            /\ \A i \in DOMAIN T : Occurrences(T, T[i]) <= Occurrences(M, T[i])
            /\ \A i \in DOMAIN M :
                  Occurrences(T, M[i]) < Occurrences(M, M[i]) =>
                      \A j \in DOMAIN T :
                          T[j].Department = M[i].Department =>
                              ProfitGE(T[j].Estimated_Profit, M[i].Estimated_Profit)

\* C7 witness: a department has 18 joined rows of which 15 are kept, the
\* kept ones are not all equal, a row of lower Estimated_Profit is cut, and
\* another department keeps its single row of undefined Estimated_Profit.
C7_Witness ==
    /\ pc = "done"
    /\ MergedRowsOf("D1") = 18
    /\ TopRowsOf("D1") = 15
    /\ top_clients_15[1].Estimated_Profit.v > top_clients_15[15].Estimated_Profit.v
    /\ \E i \in DOMAIN merged_clients_profit :
          /\ merged_clients_profit[i].Department = "D1"
          /\ Occurrences(top_clients_15, merged_clients_profit[i]) = 0
          /\ merged_clients_profit[i].Estimated_Profit.v
               < top_clients_15[15].Estimated_Profit.v
    /\ \E i \in DOMAIN top_clients_15 :
          /\ top_clients_15[i].Department = "D3"
          /\ top_clients_15[i].Estimated_Profit = NaN

====
